---- MODULE Spec2Model ----
(***************************************************************************)
(* Extent discovery on sparse files (src/src/lib.rs).                      *)
(*                                                                         *)
(* The library has two primitives over an open file handle:                *)
(*   quick_extents(fd)  one FS_IOC_FIEMAP ioctl on a fresh FiemapReq       *)
(*   lseek_to(fd, to)   one absolute seek, ENXIO translated to SeekOff::EOF*)
(* and three tests that drive them against a real filesystem.  The kernel  *)
(* side of the two system calls (and of the writes the tests issue) is     *)
(* modelled here as far as the library and its tests observe it: a file is *)
(* a size, the set of bytes written, and the set of allocated blocks; a    *)
(* handle is a kind and a cursor.  A write_all by a caller of the library  *)
(* is the loop of write(2) calls it is in the standard library, one call a *)
(* step, so that another user of the same handle can act between two of    *)
(* them.                                                                   *)
(*                                                                         *)
(* quick_extents binds the request record immutably and hands the ioctl a  *)
(* *const pointer to it; the kernel writes through that pointer and the    *)
(* record the function returns is the stack slot as the kernel left it     *)
(* (the tests of the repository read fm_mapped_extents from it).  The      *)
(* reserved words of an extent entry are zero throughout and are left out, *)
(* as is the placement of extents on the device (fe_physical mirrors       *)
(* fe_logical).                                                            *)
(***************************************************************************)
EXTENDS Integers, Sequences, FiniteSets, TLC

(* ------------------------------ bounds -------------------------------- *)
\* width of the model's "u64" (offsets are kept modulo 2^WordBits)
WordBits == 14
\* allocation unit of the filesystem, in bytes ("Assumes 4k blocks")
FsBlockSize == 2
\* largest small seek target the callers try
MaxTo == 3
\* number of library calls and writes in one behaviour of the callers
MaxOps == 5
\* how many extents more than one FIEMAP page the largest test file has
ExtraExtents == 1
\* how many times a caller re-issues the extent query after the first call
MaxRequery == 2

(* -------------------------- program constants ------------------------- *)
FIEMAP_PAGE_SIZE == 256

(* ------------------------------ integers ------------------------------ *)
Pow2(n) == 2 ^ n
U64Max == Pow2(WordBits) - 1
I64Max == Pow2(WordBits - 1) - 1
\* the largest file offset (s_maxbytes) of the filesystem with FIEMAP,
\* below I64Max
MaxBytes == Pow2(WordBits - 2)
\* `pos as i64`: the two's complement reading of an unsigned word
AsI64(u) == IF u > I64Max THEN u - Pow2(WordBits) ELSE u
\* `off as u64`
AsU64(i) == i % Pow2(WordBits)
\* the model's "u32": wider than the sizes the tests use, narrower than the
\* largest file offset
U32Bits == WordBits - 3
\* `x as u32`
AsU32(x) == x % Pow2(U32Bits)
Max2(a, b) == IF a >= b THEN a ELSE b
Min2(a, b) == IF a <= b THEN a ELSE b

(* ------------------------- handles and files -------------------------- *)
Files == {1, 2}
Handles == {1, 2, 3}
Callers == {1, 2, 3, 4}
\* callers 1 and 2 share handle 2; callers 3 and 4 each have a handle of
\* their own, handles 1 and 3, both on file 1
HandleOf(c) == IF c <= 2 THEN 2 ELSE IF c = 3 THEN 1 ELSE 3
\* handle 3 is a second handle on file 1 (the tests reopen their file)
FileOf(h) == IF h = 3 THEN 1 ELSE h
\* regular  : regular file on a filesystem with FIEMAP
\* nofiemap : regular file on a filesystem without it (tmpfs)
\* pipe     : not seekable, no FIEMAP
\* opath    : descriptor that permits neither call
\* null     : /dev/null, whose every seek ends at position 0
Kinds == {"regular", "nofiemap", "pipe", "opath", "null"}
Seekable == {"regular", "nofiemap"}
\* the largest file offset of a file of kind kd: tmpfs takes every offset
\* an i64 holds
MaxBytesOf(kd) == IF kd = "nofiemap" THEN I64Max ELSE MaxBytes

VARIABLES
  files,    \* file -> [size, data, alloc]
  cursor,   \* handle -> file position
  hkind,    \* handle -> kind
  pc,       \* caller -> "idle" | "seeked" | "writing"
  asked,    \* caller -> the offset of its pending lseek_to (-1: none)
  left,     \* caller -> the bytes its write_all has still to write
  probed,   \* caller -> its accepted probes: the offset, and whether it
            \*           was inside the file
  last,     \* record of the last operation: its caller, inputs and result
  nops,     \* number of operations performed
  test,     \* parameters of the running test
  tpc,      \* position of the running test
  off,      \* loop variable of test_extent_fetch_many
  pages     \* the request records returned to the test, in order

vars == <<files, cursor, hkind, pc, asked, left, probed, last, nops,
          test, tpc, off, pages>>

(* ---------------------------- the records ----------------------------- *)
FiemapExtent_new ==
  [fe_logical |-> 0, fe_physical |-> 0, fe_length |-> 0, fe_flags |-> {}]

FiemapReq_new_BadCount ==
  [fm_start |-> 0, fm_length |-> U64Max, fm_flags |-> 0,
   fm_mapped_extents |-> 0, fm_extent_count |-> FIEMAP_PAGE_SIZE + 1,
   fm_reserved |-> 0,
   fm_extents |-> [i \in 1..FIEMAP_PAGE_SIZE |-> FiemapExtent_new]]

FiemapReq_new ==
  [fm_start |-> 0, fm_length |-> U64Max, fm_flags |-> 0,
   fm_mapped_extents |-> 0, fm_extent_count |-> FIEMAP_PAGE_SIZE,
   fm_reserved |-> 0,
   fm_extents |-> [i \in 1..FIEMAP_PAGE_SIZE |-> FiemapExtent_new]]

EmptyFile == [size |-> 0, data |-> {}, alloc |-> {}]

(* ------------------------- the filesystem side ------------------------ *)
BlockOf(b) == b \div FsBlockSize
\* the blocks a write of len bytes at offset o touches
BlocksOf(o, len) == IF len = 0 THEN {} ELSE BlockOf(o)..BlockOf(o + len - 1)

\* the bytes one write(2) of len bytes at position o stores in a file of
\* kind kd: none when o + len does not fit an i64 (EINVAL) or when o is at
\* the largest file offset (EFBIG); otherwise all of them, or the part that
\* fits below the largest file offset (a short write)
Stored(kd, o, len) ==
  IF o + len > I64Max THEN 0
  ELSE IF o >= MaxBytesOf(kd) THEN 0
  ELSE Min2(len, MaxBytesOf(kd) - o)
\* the errno of a write(2) that stores nothing
WriteErrno(kd, o, len) ==
  IF len = 0 \/ Stored(kd, o, len) > 0 THEN ""
  ELSE IF o + len > I64Max THEN "EINVAL" ELSE "EFBIG"
\* the file after one write(2) of len bytes at position o: the stored bytes
\* are kept, their blocks allocated and the size grown
WriteAt(kd, f, o, len) ==
  LET n == Stored(kd, o, len)
  IN IF n = 0 THEN f
     ELSE [size  |-> Max2(f.size, o + n),
           data  |-> f.data \cup (o..(o + n - 1)),
           alloc |-> f.alloc \cup BlocksOf(o, n)]

\* /usr/bin/truncate -s n succeeds up to the largest file offset
TruncateOk(kd, n) == n <= MaxBytesOf(kd)
\* the new file after /usr/bin/truncate -s n: size without allocation, or
\* the empty file when truncate fails (File too large)
Truncated(kd, n) ==
  IF TruncateOk(kd, n) THEN [size |-> n, data |-> {}, alloc |-> {}]
  ELSE [size |-> 0, data |-> {}, alloc |-> {}]

\* first blocks of the maximal runs of allocated blocks
ExtStarts(alloc) == {b \in alloc : (b - 1) \notin alloc}
\* one past the last block of the run that starts at s
ExtEnd(alloc, s) ==
  CHOOSE e \in (s + 1)..(I64Max + 1) :
      /\ e \notin alloc
      /\ \A x \in s..(e - 1) : x \in alloc

\* the members of a set of block numbers in ascending order
SortedSeq(S) ==
  IF S = {} THEN <<>>
  ELSE LET top == CHOOSE x \in S : \A y \in S : y <= x
       IN SelectSeq([i \in 1..(top + 1) |-> i - 1], LAMBDA b : b \in S)

\* the extents of a file, ascending by logical offset, the last one flagged
Extents(f) ==
  LET starts == SortedSeq(ExtStarts(f.alloc))
  IN [i \in 1..Len(starts) |->
        [fe_logical  |-> starts[i] * FsBlockSize,
         fe_physical |-> starts[i] * FsBlockSize,
         fe_length   |-> (ExtEnd(f.alloc, starts[i]) - starts[i]) * FsBlockSize,
         fe_flags    |-> IF i = Len(starts) THEN {"LAST"} ELSE {}]]

\* an extent overlaps the requested range [start, start + len)
InRange(e, start, len) ==
  /\ e.fe_logical + e.fe_length > start
  /\ e.fe_logical < start + len

\* FS_IOC_FIEMAP: fills the first min(n, fm_extent_count) slots with the
\* extents that overlap the requested range and sets fm_mapped_extents
\* (a count beyond the array's length writes past the array)
ioctl_fiemap(k, h, req) ==
  CASE k.hkind[h] = "opath" ->
         [ret |-> -1, errno |-> "EBADF", req |-> req, k |-> k]
    [] k.hkind[h] # "regular" ->
         [ret |-> -1, errno |-> "EOPNOTSUPP", req |-> req, k |-> k]
    [] req.fm_length = 0 ->
         [ret |-> -1, errno |-> "EINVAL", req |-> req, k |-> k]
    [] OTHER ->
         LET len  == Min2(req.fm_length,
                          MaxBytesOf(k.hkind[h])
                            - Min2(req.fm_start, MaxBytesOf(k.hkind[h])))
             all  == SelectSeq(Extents(k.files[FileOf(h)]),
                               LAMBDA e : InRange(e, req.fm_start, len))
             n    == Min2(Len(all), req.fm_extent_count)
         IN [ret |-> 0, errno |-> "",
             req |-> [req EXCEPT
                        !.fm_mapped_extents = n,
                        !.fm_extents = [i \in 1..Max2(n, Len(req.fm_extents)) |->
                                          IF i <= n THEN all[i]
                                          ELSE FiemapExtent_new]],
             k |-> k]

\* lseek(2).  SEEK_SET positions at offset and SEEK_CUR at cursor + offset,
\* both also past the end of the file, up to the largest file offset;
\* SEEK_DATA positions at the first allocated byte at or after offset and
\* has no position (ENXIO) before the start, at or past the end of the file
\* or when only a hole follows.  /dev/null answers every seek with
\* position 0.
sys_lseek(k, h, offset, whence) ==
  LET f == k.files[FileOf(h)]
      target == IF whence = "SEEK_CUR" THEN k.cursor[h] + offset ELSE offset
      fail(e) == [ok |-> FALSE, off |-> -1, errno |-> e, k |-> k]
      done(p) == [ok |-> TRUE, off |-> p, errno |-> "",
                  k |-> [k EXCEPT !.cursor[h] = p]]
      later == {b \in target..(f.size - 1) : BlockOf(b) \in f.alloc}
  IN CASE k.hkind[h] = "opath" -> fail("EBADF")
       [] k.hkind[h] = "pipe" -> fail("ESPIPE")
       [] k.hkind[h] = "null" -> done(0)
       [] whence = "SEEK_DATA" /\ (target < 0 \/ later = {}) -> fail("ENXIO")
       [] target < 0 \/ target > MaxBytesOf(k.hkind[h]) -> fail("EINVAL")
       [] whence = "SEEK_DATA" ->
            done(CHOOSE b \in later : \A x \in later : b <= x)
       [] OTHER -> done(target)

\* OpenOptions::append(true): every write goes to the end of the file
WritePos_Append(k, h) == k.files[FileOf(h)].size

\* OpenOptions::new().write(true).append(false): a write begins at the cursor
WritePos(k, h) == k.cursor[h]

\* write(2) of len bytes through handle h: the bytes go to the handle's
\* position, which moves past the bytes stored
sys_write(k, h, len) ==
  LET f  == FileOf(h)
      kd == k.hkind[h]
      at == WritePos(k, h)
      n  == Stored(kd, at, len)
  IN [n |-> n, errno |-> WriteErrno(kd, at, len), at |-> at,
      k |-> [k EXCEPT !.files[f] = WriteAt(kd, @, at, len),
                      !.cursor[h] = at + n]]

\* Write::write_all: write(2) until every byte is written or a call fails
RECURSIVE write_all(_, _, _)
write_all(k, h, len) ==
  IF len = 0 THEN [ok |-> TRUE, errno |-> "", k |-> k]
  ELSE LET w == sys_write(k, h, len)
       IN IF w.n = 0 THEN [ok |-> FALSE, errno |-> w.errno, k |-> w.k]
          ELSE write_all(w.k, h, len - w.n)

(* ----------------------------- the library ---------------------------- *)
\* the kernel as the calls see it
K == [files |-> files, cursor |-> cursor, hkind |-> hkind]

OkReq(req) == [kind |-> "Ok", errno |-> "", req |-> req]
Unsupported == [kind |-> "Unsupported", errno |-> "", req |-> FiemapReq_new]
OsErr(e) == [kind |-> "OsErr", errno |-> e, req |-> FiemapReq_new]

\* EOPNOTSUPP reported like every other errno
quick_extents_Generic(k, h) ==
  LET r == ioctl_fiemap(k, h, FiemapReq_new)
  IN [out |-> IF r.ret # 0 THEN OsErr(r.errno) ELSE OkReq(r.req),
      sys |-> [ret |-> r.ret, errno |-> r.errno, req |-> r.req],
      k   |-> r.k]

\* the ioctl is given a copy and the untouched record is returned
quick_extents_Stale(k, h) ==
  LET r == ioctl_fiemap(k, h, FiemapReq_new)
  IN [out |-> IF r.ret # 0
              THEN IF r.errno = "EOPNOTSUPP" THEN Unsupported
                   ELSE OsErr(r.errno)
              ELSE OkReq(FiemapReq_new),
      sys |-> [ret |-> r.ret, errno |-> r.errno, req |-> r.req],
      k   |-> r.k]

\* the handle is rewound before the query
quick_extents_Rewind(k, h) ==
  LET s == sys_lseek(k, h, 0, "SEEK_SET")
      r == ioctl_fiemap(s.k, h, FiemapReq_new)
  IN [out |-> IF r.ret # 0
              THEN IF r.errno = "EOPNOTSUPP" THEN Unsupported
                   ELSE OsErr(r.errno)
              ELSE OkReq(r.req),
      sys |-> [ret |-> r.ret, errno |-> r.errno, req |-> r.req],
      k   |-> r.k]

\* fn quick_extents(fd: &File) -> Result<FiemapReq>
quick_extents(k, h) ==
  LET r == ioctl_fiemap(k, h, FiemapReq_new)
  IN [out |-> IF r.ret # 0
              THEN IF r.errno = "EOPNOTSUPP" THEN Unsupported
                   ELSE OsErr(r.errno)
              ELSE OkReq(r.req),
      sys |-> [ret |-> r.ret, errno |-> r.errno, req |-> r.req],
      k   |-> r.k]

Offset(p) == [kind |-> "Offset", val |-> p, errno |-> ""]
EOF == [kind |-> "EOF", val |-> 0, errno |-> ""]
SeekErr(e) == [kind |-> "Err", val |-> 0, errno |-> e]

\* ENXIO passed on like every other errno
SeekOff_NoEof(r) ==
  IF r.ok THEN Offset(AsU64(r.off)) ELSE SeekErr(r.errno)

\* what lseek_to makes of the result of rustix::fs::seek
SeekOff(r) ==
  CASE ~r.ok /\ r.errno = "ENXIO" -> EOF
    [] ~r.ok -> SeekErr(r.errno)
    [] OTHER -> Offset(AsU64(r.off))

\* SeekFrom::Data in place of SeekFrom::Start
lseek_to_Data(k, h, to) ==
  LET r == sys_lseek(k, h, AsI64(to), "SEEK_DATA")
  IN [out |-> SeekOff(r),
      sys |-> [ok |-> r.ok, off |-> r.off, errno |-> r.errno],
      k   |-> r.k]

\* SeekFrom::Current in place of SeekFrom::Start
lseek_to_Current(k, h, to) ==
  LET r == sys_lseek(k, h, AsI64(to), "SEEK_CUR")
  IN [out |-> SeekOff(r),
      sys |-> [ok |-> r.ok, off |-> r.off, errno |-> r.errno],
      k   |-> r.k]

\* fn lseek_to(fd: &File, to: u64) -> Result<SeekOff>
lseek_to(k, h, to) ==
  LET r == sys_lseek(k, h, AsI64(to), "SEEK_SET")
  IN [out |-> SeekOff(r),
      sys |-> [ok |-> r.ok, off |-> r.off, errno |-> r.errno],
      k   |-> r.k]

(* ----------------------------- the callers ---------------------------- *)
\* length of the blocks the callers write
WriteLen == FsBlockSize
\* small seek targets, around the size the files start with
NearTargets == 0..MaxTo
\* the targets of callers that run interleaved: the start of the file, an
\* offset past its end, and one whose block straddles the largest file
\* offset
SharedTargets == {0, WriteLen + 1, MaxBytes - 1}
\* and the edges of the offset range
AllTargets ==
  NearTargets \cup {MaxBytes - 1, MaxBytes, MaxBytes + 1,
                    I64Max - WriteLen, I64Max - 1, I64Max, I64Max + 1, U64Max}
\* size the callers' files are truncated to
InitSize == FsBlockSize

NoOp == [op |-> "none", c |-> 0]
NoTest == [name |-> "none", bsize |-> 0, fsize |-> 0, offset |-> 0, len |-> 0]

InitCallers ==
  /\ cursor = [h \in Handles |-> 0]
  /\ pc = [c \in Callers |-> "idle"]
  /\ asked = [c \in Callers |-> -1]
  /\ left = [c \in Callers |-> 0]
  /\ probed = [c \in Callers |-> {}]
  /\ nops = 0
  /\ test = NoTest
  /\ tpc = "none"
  /\ off = 0
  /\ pages = <<>>

TestVars == <<test, tpc, off, pages>>

\* caller c calls lseek_to(fd, to); on Err the caller gives up (`?`)
LseekTo(c, T) ==
  /\ nops < MaxOps
  /\ pc[c] = "idle"
  /\ \E to \in T :
       LET h == HandleOf(c)
           r == lseek_to(K, h, to)
           go == r.out.kind # "Err" /\ hkind[h] \in Seekable
       IN /\ cursor' = r.k.cursor
          /\ files' = r.k.files
          /\ last' = [op |-> "lseek_to", c |-> c, to |-> to,
                      size |-> files[FileOf(h)].size, sys |-> r.sys,
                      out |-> r.out]
          /\ pc' = [pc EXCEPT ![c] = IF go THEN "seeked" ELSE "idle"]
          /\ asked' = [asked EXCEPT ![c] = IF go THEN to ELSE -1]
          /\ probed' = [probed EXCEPT ![c] =
                          IF go THEN @ \cup {[off |-> to,
                                              inb |-> to < files[FileOf(h)].size]}
                          ELSE @]
  /\ nops' = nops + 1
  /\ UNCHANGED <<hkind, left, TestVars>>

\* caller c writes a block through its handle (fd.write_all): one step is
\* one write(2) of the loop, the first of the whole block, a later one of
\* the bytes a short write left; the loop ends when every byte is written
\* (Ok) or a write(2) fails (Err)
Write(c) ==
  /\ pc[c] \in {"seeked", "writing"}
  /\ pc[c] = "seeked" => nops < MaxOps
  /\ LET h == HandleOf(c)
         begin == pc[c] = "seeked"
         len == IF begin THEN WriteLen ELSE left[c]
         w == sys_write(K, h, len)
         fin == w.n = 0 \/ w.n = len
     IN /\ files' = w.k.files
        /\ cursor' = w.k.cursor
        /\ left' = [left EXCEPT ![c] = IF fin THEN 0 ELSE len - w.n]
        /\ pc' = [pc EXCEPT ![c] = IF fin THEN "idle" ELSE "writing"]
        /\ asked' = [asked EXCEPT ![c] = IF fin THEN -1 ELSE @]
        /\ nops' = IF begin THEN nops + 1 ELSE nops
        /\ last' = [op |-> "write", c |-> c, begin |-> begin, fin |-> fin,
                    ok |-> w.n = len, stored |-> w.n, errno |-> w.errno,
                    len |-> len, at |-> w.at, asked |-> asked[c]]
  /\ UNCHANGED <<hkind, probed, TestVars>>

\* caller c calls quick_extents(fd)
QuickExtents(c) ==
  /\ nops < MaxOps
  /\ pc[c] # "writing"
  /\ LET r == quick_extents(K, HandleOf(c))
     IN /\ files' = r.k.files
        /\ cursor' = r.k.cursor
        /\ last' = [op |-> "quick_extents", c |-> c, sys |-> r.sys,
                    out |-> r.out]
  /\ nops' = nops + 1
  /\ UNCHANGED <<hkind, pc, asked, left, probed, TestVars>>

\* callers on handles of regular files, two of them sharing a handle, two
\* with a handle each on one file
Init ==
  /\ hkind = [h \in Handles |-> "regular"]
  /\ files = [f \in Files |-> Truncated(hkind[f], InitSize)]
  /\ InitCallers
  /\ last = NoOp

Next ==
  \/ \E c \in Callers : LseekTo(c, SharedTargets)
  \/ \E c \in Callers : Write(c)
  \/ \E c \in Callers : QuickExtents(c)

Spec == Init /\ [][Next]_vars

\* one caller on a handle of its own, of any kind, probing any offset of
\* a file that is short or as long as the filesystem lets it be
ProbeCaller == CHOOSE c \in Callers : HandleOf(c) = 1

InitHandles ==
  /\ hkind \in {hk \in [Handles -> Kinds] :
                  hk[2] = "regular" /\ hk[3] = hk[1]}
  /\ files \in {[f \in Files |->
                   Truncated(hkind[f], IF full THEN MaxBytesOf(hkind[f])
                                       ELSE InitSize)] : full \in BOOLEAN}
  /\ InitCallers

InitProbe ==
  /\ InitHandles
  /\ last = NoOp

NextProbe ==
  \/ LseekTo(ProbeCaller, AllTargets)
  \/ Write(ProbeCaller)
  \/ QuickExtents(ProbeCaller)

ProbeSpec == InitProbe /\ [][NextProbe]_vars

\* the results rustix::fs::seek can hand to lseek_to: a position, or an errno
SeekResults ==
  {[ok |-> TRUE, off |-> p, errno |-> ""] : p \in NearTargets \cup {MaxBytes}}
  \cup
  {[ok |-> FALSE, off |-> -1, errno |-> e] :
      e \in {"ENXIO", "EINVAL", "ESPIPE", "EBADF", "EOVERFLOW"}}

\* the probing caller, and the match of lseek_to applied to a seek result
\* given from outside (plain SEEK_SET on the handles above never ends in
\* ENXIO)
InitSeek ==
  /\ InitHandles
  /\ last \in {NoOp} \cup {[op |-> "seek_result", c |-> ProbeCaller, sys |-> r] :
                            r \in SeekResults}

\* match rustix::fs::seek(..) { Err(ENXIO) => Ok(EOF), Err(e) => Err(e),
\*                              Ok(off) => Ok(Offset(off)) }
Translate ==
  /\ last.op = "seek_result"
  /\ last' = [op |-> "translated", c |-> last.c, sys |-> last.sys,
              out |-> SeekOff(last.sys)]
  /\ UNCHANGED <<files, cursor, hkind, pc, asked, left, probed, nops,
                 TestVars>>

NextSeek ==
  \/ Translate
  \/ NextProbe

SeekSpec == InitSeek /\ [][NextSeek]_vars

(* ------------------------------ the tests ----------------------------- *)
\* The three tests of the repository, their literals (file size, block
\* size, offset, data length) drawn from small sets.  File 1 is the file
\* under test, file 2 is from.txt; handle 1 writes file 1, handle 3 is the
\* handle File::open returns for it.
TestHandle(name) == IF name = "fetch_many" THEN 1 ELSE 3

SmallSizes == 0..(2 * FsBlockSize + 1)
\* small files; files of one FIEMAP page and of a little more; a file whose
\* size does not fit the u32 of the assertion; files that cannot be created
\* (on the filesystem with FIEMAP, on every filesystem); files whose last
\* block straddles the largest file offset
ManySizes ==
  {<<b, k * b>> : b \in {1, FsBlockSize, FsBlockSize + 1, 2 * FsBlockSize},
                  k \in 1..5}
  \cup {<<FsBlockSize, 2 * FsBlockSize * FIEMAP_PAGE_SIZE>>,
        <<FsBlockSize, 2 * FsBlockSize * (FIEMAP_PAGE_SIZE + ExtraExtents)>>,
        <<FsBlockSize, Pow2(U32Bits) + 2 * FsBlockSize * FIEMAP_PAGE_SIZE>>,
        <<FsBlockSize, MaxBytes + 1>>,
        <<FsBlockSize, I64Max + 1>>,
        <<MaxBytes \div 2 - 1, MaxBytes>>,
        <<MaxBytes - 1, I64Max>>}

TestParams ==
  {[name |-> "fetch", bsize |-> 0, fsize |-> f, offset |-> o, len |-> n] :
      f \in {2 * FsBlockSize, 3 * FsBlockSize + 1, MaxBytes + 1, I64Max + 1},
      o \in 0..(2 * FsBlockSize), n \in 0..(FsBlockSize + 1)}
  \cup
  {[name |-> "not_sparse", bsize |-> 0, fsize |-> n, offset |-> 0, len |-> n] :
      n \in SmallSizes}
  \cup
  {[name |-> "fetch_many", bsize |-> p[1], fsize |-> p[2], offset |-> 0,
    len |-> p[1]] : p \in ManySizes}

InitTests ==
  /\ files = [f \in Files |-> EmptyFile]
  /\ cursor = [h \in Handles |-> 0]
  /\ hkind \in {[h \in Handles |-> kd] : kd \in {"regular", "nofiemap"}}
  /\ pc = [c \in Callers |-> "idle"]
  /\ asked = [c \in Callers |-> -1]
  /\ left = [c \in Callers |-> 0]
  /\ probed = [c \in Callers |-> {}]
  /\ last = NoOp
  /\ nops = 0
  /\ test \in TestParams
  /\ tpc = "start"
  /\ off = 0
  /\ pages = <<>>

CallerVars == <<pc, asked, left, probed, last, nops>>

\* test_extent_fetch: File::create(&from), write!(fd, "{}", data)
T_CreateFrom ==
  /\ tpc = "start" /\ test.name = "fetch"
  /\ files' = [files EXCEPT ![2] = WriteAt(hkind[2], EmptyFile, 0, test.len)]
  /\ cursor' = [cursor EXCEPT ![2] = test.len]
  /\ tpc' = "truncate"
  /\ UNCHANGED <<hkind, test, off, pages, CallerVars>>

\* /usr/bin/truncate -s <fsize> <file>; assert!(out.status.success())
T_Truncate ==
  /\ \/ tpc = "truncate"
     \/ tpc = "start" /\ test.name = "fetch_many"
  /\ files' = [files EXCEPT ![1] = Truncated(hkind[1], test.fsize)]
  /\ tpc' = IF ~TruncateOk(hkind[1], test.fsize) THEN "panicked"
            ELSE IF test.name = "fetch" THEN "copy" ELSE "loop"
  /\ off' = 0
  /\ UNCHANGED <<cursor, hkind, test, pages, CallerVars>>

\* copy_file_range(&infd, Some(0), &outfd, Some(offset), data.len()) and the
\* assertion on the number of bytes copied; the cursors are not used
T_Copy ==
  /\ tpc = "copy"
  /\ LET copied == Min2(test.len, files[2].size)
     IN /\ files' = [files EXCEPT ![1] = WriteAt(hkind[1], @, test.offset, copied)]
        /\ tpc' = IF copied = test.len THEN "query" ELSE "panicked"
  /\ UNCHANGED <<cursor, hkind, test, off, pages, CallerVars>>

\* test_extent_not_sparse: File::create(&file), write!(fd, "{}", data)
T_Create ==
  /\ tpc = "start" /\ test.name = "not_sparse"
  /\ files' = [files EXCEPT ![1] = WriteAt(hkind[1], EmptyFile, 0, test.len)]
  /\ cursor' = [cursor EXCEPT ![1] = test.len]
  /\ tpc' = "query"
  /\ UNCHANGED <<hkind, test, off, pages, CallerVars>>

\* a loop that writes every block: step_by(bsize)
NextOff_EveryBlock(o, bsize) == o + bsize

\* for off in (0..fsize).step_by(bsize * 2)
NextOff(o, bsize) == o + bsize * 2

\* test_extent_fetch_many: lseek_to(&fd, off)?
T_Seek ==
  /\ tpc = "loop"
  /\ off < test.fsize
  /\ LET r == lseek_to(K, 1, off)
     IN /\ cursor' = r.k.cursor
        /\ files' = r.k.files
        /\ tpc' = IF r.out.kind = "Err" THEN "failed" ELSE "write"
  /\ UNCHANGED <<hkind, test, off, pages, CallerVars>>

\* fd.write_all(block.as_slice())?  (the test is the only user of its
\* handle: the loop runs to its end in one step)
T_Write ==
  /\ tpc = "write"
  /\ LET r == write_all(K, 1, test.bsize)
     IN /\ files' = r.k.files
        /\ cursor' = r.k.cursor
        /\ off' = IF r.ok THEN NextOff(off, test.bsize) ELSE off
        /\ tpc' = IF r.ok THEN "loop" ELSE "failed"
  /\ UNCHANGED <<hkind, test, pages, CallerVars>>

\* let extents = quick_extents(&fd)?
T_Query ==
  /\ \/ tpc = "query"
     \/ tpc = "loop" /\ off >= test.fsize
  /\ LET r == quick_extents(K, TestHandle(test.name))
     IN /\ files' = r.k.files
        /\ cursor' = r.k.cursor
        /\ pages' = IF r.out.kind = "Ok" THEN <<r.out.req>> ELSE pages
        /\ tpc' = IF r.out.kind = "Ok" THEN "assert" ELSE "failed"
  /\ UNCHANGED <<hkind, test, off, CallerVars>>

\* the count the test expects: fsize as u32 / bsize as u32 / 2, or 1
Expected(t) ==
  IF t.name = "fetch_many" THEN (AsU32(t.fsize) \div AsU32(t.bsize)) \div 2
  ELSE 1

\* assert_eq!(extents.fm_mapped_extents, ...)
T_Assert ==
  /\ tpc = "assert"
  /\ tpc' = IF pages[1].fm_mapped_extents = Expected(test)
            THEN "passed" ELSE "panicked"
  /\ UNCHANGED <<files, cursor, hkind, test, off, pages, CallerVars>>

\* the caller asks for the next page the only way the library offers:
\* by calling quick_extents(&fd) again
T_Requery ==
  /\ tpc \in {"passed", "panicked"}
  /\ pages # <<>>
  /\ Len(pages) <= MaxRequery
  /\ LET r == quick_extents(K, TestHandle(test.name))
     IN /\ files' = r.k.files
        /\ cursor' = r.k.cursor
        /\ pages' = IF r.out.kind = "Ok" THEN Append(pages, r.out.req)
                    ELSE pages
  /\ UNCHANGED <<hkind, test, tpc, off, CallerVars>>

NextTests ==
  \/ T_CreateFrom
  \/ T_Truncate
  \/ T_Copy
  \/ T_Create
  \/ T_Seek
  \/ T_Write
  \/ T_Query
  \/ T_Assert
  \/ T_Requery

TestSpec == InitTests /\ [][NextTests]_vars

(* ------------------------------ the claims ---------------------------- *)
\* the record a successful FIEMAP of file f through a fresh request yields
Populated(f) ==
  LET all == Extents(f)
      n == Min2(Len(all), FIEMAP_PAGE_SIZE)
  IN [FiemapReq_new EXCEPT
        !.fm_mapped_extents = n,
        !.fm_extents = [i \in 1..FIEMAP_PAGE_SIZE |->
                          IF i <= n THEN all[i] ELSE FiemapExtent_new]]

\* C1: every quick_extents call ends in exactly one of three ways: the
\* ioctl returned 0 and the populated record is returned; it failed with
\* EOPNOTSUPP and the "unsupported filesystem" error is returned, not the OS
\* error; it failed with another errno and the OS error with that errno is
\* returned.  No failing call returns a record.
C1_Classified ==
  last.op = "quick_extents" =>
    LET f == files[FileOf(HandleOf(last.c))]
    IN /\ last.sys.ret = 0 =>
            /\ last.out.kind = "Ok"
            /\ last.out.req = last.sys.req
            /\ last.out.req = Populated(f)
       /\ (last.sys.ret # 0 /\ last.sys.errno = "EOPNOTSUPP") =>
            last.out = Unsupported
       /\ (last.sys.ret # 0 /\ last.sys.errno # "EOPNOTSUPP") =>
            last.out = OsErr(last.sys.errno)
       /\ last.sys.ret # 0 => last.out.kind # "Ok"
       /\ last.out.kind \in {"Ok", "Unsupported", "OsErr"}

\* an unsupported filesystem reported after the file was written to
C1_Witness ==
  /\ last.op = "quick_extents"
  /\ last.sys.errno = "EOPNOTSUPP"
  /\ last.out.kind = "Unsupported"
  /\ files[FileOf(HandleOf(last.c))].data # {}

\* C2: lseek_to translates the result of the seek: success at p gives
\* Offset(p), failure with ENXIO gives the EOF marker as a value, failure
\* with any other errno gives an error carrying that errno.
C2_Translated ==
  last.op \in {"lseek_to", "translated"} =>
    /\ last.sys.ok => last.out = Offset(last.sys.off)
    /\ (~last.sys.ok /\ last.sys.errno = "ENXIO") => last.out = EOF
    /\ (~last.sys.ok /\ last.sys.errno # "ENXIO") =>
         last.out = SeekErr(last.sys.errno)

\* a seek that failed with ENXIO and came back as the EOF marker
C2_Witness ==
  /\ last.op = "translated"
  /\ ~last.sys.ok
  /\ last.sys.errno = "ENXIO"
  /\ last.out = EOF

\* the last operation was an lseek_to on a regular file
OnRegularFile == last.op = "lseek_to" /\ hkind[HandleOf(last.c)] \in Seekable

\* C3 as stated: on a file of size S every lseek_to(fd, to) with to >= S
\* returns the EOF marker.
C3_EofAtOrBeyondSize ==
  (OnRegularFile /\ last.to >= last.size) => last.out = EOF

\* C3 as the code has it: on a file of size S, lseek_to(fd, to) with to >= S
\* never returns the EOF marker: it returns Offset(to), with the cursor at
\* to, when to is within the addressable range, and the error EINVAL when
\* it is beyond it.
C3_OffsetAtOrBeyondSize ==
  (OnRegularFile /\ last.to >= last.size) =>
    /\ last.out # EOF
    /\ last.to <= MaxBytesOf(hkind[HandleOf(last.c)]) =>
         (last.out = Offset(last.to) /\ cursor[HandleOf(last.c)] = last.to)
    /\ last.to > MaxBytesOf(hkind[HandleOf(last.c)]) =>
         last.out = SeekErr("EINVAL")

\* a seek past the end of a file that was written to, answered with the offset
C3_Witness ==
  /\ OnRegularFile
  /\ last.to > last.size
  /\ files[FileOf(HandleOf(last.c))].data # {}
  /\ last.out = Offset(last.to)

\* the accepted probes of the probing caller and the kind of its file
Probes == probed[ProbeCaller]
ProbeKind == hkind[HandleOf(ProbeCaller)]
\* the bytes of the probing caller's file that were written
ProbeData == files[FileOf(HandleOf(ProbeCaller))].data
\* every probe has been followed by its write
AllWritten == pc[ProbeCaller] = "idle"
\* the B bytes of a block at offset o
BlockRange(o) == o..(o + WriteLen - 1)
\* a block at offset o ends at or below the largest file offset
Fits(kd, o) == o + WriteLen <= MaxBytesOf(kd)

\* C4 as stated: lseek_to to an in-bounds offset returns Offset(to) and
\* leaves the cursor at to; the write that follows begins at byte to; after
\* any sequence of lseek_to(off) to in-bounds offsets, each followed by the
\* write of a B-byte block, the bytes written are exactly the ranges
\* [off, off + B) of the probed offsets.
C4_ExactBlocks ==
  /\ (OnRegularFile /\ last.to < last.size) =>
        /\ last.out = Offset(last.to)
        /\ cursor[HandleOf(last.c)] = last.to
  /\ (last.op = "write" /\ last.begin) => last.at = last.asked
  /\ (AllWritten /\ \A p \in Probes : p.inb) =>
        ProbeData = UNION {BlockRange(p.off) : p \in Probes}

\* C4 as the code has it: lseek_to to an in-bounds offset returns Offset(to)
\* and leaves the cursor at to; the write that follows begins at byte to;
\* after any sequence of lseek_to(off), each followed by the write of a
\* B-byte block, the bytes written are exactly the ranges [off, off + B)
\* when every block ends at or below the largest file offset of the
\* filesystem; the write of a block that would end beyond it fails, and
\* stores no byte outside the part of [off, off + B) below that offset.
C4_SeekThenWrite ==
  /\ (OnRegularFile /\ last.to < last.size) =>
        /\ last.out = Offset(last.to)
        /\ cursor[HandleOf(last.c)] = last.to
  /\ (last.op = "write" /\ last.begin) => last.at = last.asked
  /\ (last.op = "write" /\ last.fin) =>
        (last.ok <=> Fits(ProbeKind, last.asked))
  /\ AllWritten =>
        /\ \A p \in Probes :
             Fits(ProbeKind, p.off) => BlockRange(p.off) \subseteq ProbeData
        /\ ProbeData \subseteq
             UNION {p.off..(Min2(p.off + WriteLen, MaxBytesOf(ProbeKind)) - 1) :
                      p \in Probes}

\* two blocks written at two in-bounds probed offsets with a gap between
\* them, and nothing else
C4_Witness ==
  /\ last.op = "write"
  /\ last.fin
  /\ last.ok
  /\ \E a, b \in Probes :
       /\ a.inb /\ b.inb
       /\ b.off > a.off + WriteLen
       /\ ProbeData = BlockRange(a.off) \cup BlockRange(b.off)

\* C9: a quick_extents call, succeeding or failing, after any probes and
\* writes, leaves the files (content and size) and every cursor unchanged.
C9_QueryFrame ==
  [][last'.op = "quick_extents" => (files' = files /\ cursor' = cursor)]_vars

\* a query made between a probe and its write, the cursor still at the probe
C9_Witness ==
  /\ last.op = "quick_extents"
  /\ pc[ProbeCaller] = "seeked"
  /\ asked[ProbeCaller] > 0
  /\ cursor[HandleOf(ProbeCaller)] = asked[ProbeCaller]
  /\ files[FileOf(HandleOf(ProbeCaller))].data # {}

\* the extents a page holds, in order
PageExtents(p) == [i \in 1..p.fm_mapped_extents |-> p.fm_extents[i]]
Ascending(es) ==
  \A i \in 1..(Len(es) - 1) :
     es[i].fe_logical + es[i].fe_length <= es[i + 1].fe_logical

\* C5: in every successful response fm_mapped_extents is at most the
\* capacity fm_extent_count = FIEMAP_PAGE_SIZE; when the file has more
\* extents than that, the response holds the first FIEMAP_PAGE_SIZE of them
\* in ascending logical order and the count is the capacity.
C5_CountWithinCapacity ==
  \A j \in 1..Len(pages) :
    LET p == pages[j]
        all == Extents(files[1])
    IN /\ p.fm_extent_count = FIEMAP_PAGE_SIZE
       /\ Len(p.fm_extents) = FIEMAP_PAGE_SIZE
       /\ p.fm_mapped_extents <= p.fm_extent_count
       /\ Len(all) > FIEMAP_PAGE_SIZE =>
            /\ p.fm_mapped_extents = FIEMAP_PAGE_SIZE
            /\ PageExtents(p) = SubSeq(all, 1, FIEMAP_PAGE_SIZE)
            /\ Ascending(PageExtents(p))

\* a response cut at the capacity: the file has more extents than it holds
C5_Witness ==
  /\ pages # <<>>
  /\ Len(Extents(files[1])) > FIEMAP_PAGE_SIZE
  /\ pages[1].fm_mapped_extents = FIEMAP_PAGE_SIZE
  /\ "LAST" \notin pages[1].fm_extents[FIEMAP_PAGE_SIZE].fe_flags

\* the test's file holds one written region of at least one byte
OneRegion ==
  /\ test.name \in {"fetch", "not_sparse"}
  /\ test.len >= 1
  /\ files[1].data = test.offset..(test.offset + test.len - 1)
  /\ files[1].size >= test.offset + test.len

\* C6: when the written bytes are one region [O, O + N) inside the file
\* (the fully written file is O = 0, N = size), the query returns exactly
\* one extent, which begins at or before O and ends at or after O + N.
C6_OneExtent ==
  /\ (/\ test.name \in {"fetch", "not_sparse"}
      /\ test.len >= 1
      /\ tpc \in {"query", "assert", "passed", "failed"}) => OneRegion
  /\ OneRegion =>
       /\ hkind[TestHandle(test.name)] = "regular" => tpc # "failed"
       /\ tpc # "panicked"
       /\ pages # <<>> =>
            /\ pages[1].fm_mapped_extents = 1
            /\ pages[1].fm_extents[1].fe_logical <= test.offset
            /\ pages[1].fm_extents[1].fe_logical
                 + pages[1].fm_extents[1].fe_length >= test.offset + test.len

\* the sparse test passed with the region in the middle of the file,
\* neither end on a block boundary
C6_Witness ==
  /\ test.name = "fetch"
  /\ OneRegion
  /\ tpc = "passed"
  /\ test.offset % FsBlockSize # 0
  /\ (test.offset + test.len) % FsBlockSize # 0
  /\ test.fsize > test.offset + test.len
  /\ pages[1].fm_mapped_extents = 1
  /\ pages[1].fm_extents[1].fe_logical < test.offset

\* the alternating-block test got a response
ManyDone ==
  /\ test.name = "fetch_many"
  /\ tpc \in {"assert", "passed", "panicked"}
  /\ pages # <<>>

\* C7 as stated: for every block size B and file size F the query after the
\* alternating writes returns F / B / 2 extents.
C7_CountForEverySize ==
  ManyDone => pages[1].fm_mapped_extents = (test.fsize \div test.bsize) \div 2

\* C7 as the code has it: when B is a multiple of the filesystem's block
\* size, F is a multiple of 2B and F / B / 2 is at most FIEMAP_PAGE_SIZE,
\* the query returns F / B / 2 extents, the i-th being the i-th written
\* block [2B(i-1), 2B(i-1) + B).
C7_CountForAlignedSizes ==
  (/\ ManyDone
   /\ test.bsize % FsBlockSize = 0
   /\ test.fsize % (2 * test.bsize) = 0
   /\ (test.fsize \div test.bsize) \div 2 <= FIEMAP_PAGE_SIZE) =>
    LET p == pages[1]
        n == (test.fsize \div test.bsize) \div 2
    IN /\ p.fm_mapped_extents = n
       /\ test.fsize < Pow2(U32Bits) => tpc # "panicked"
       /\ \A i \in 1..n :
            /\ p.fm_extents[i].fe_logical = 2 * test.bsize * (i - 1)
            /\ p.fm_extents[i].fe_length = test.bsize

\* the test passed on a file of several blocks, each its own extent
C7_Witness ==
  /\ test.name = "fetch_many"
  /\ tpc = "passed"
  /\ test.bsize = 2 * FsBlockSize
  /\ test.fsize = 4 * test.bsize
  /\ pages[1].fm_mapped_extents = 2
  /\ pages[1].fm_extents[2].fe_logical = 2 * test.bsize

\* the first response was cut at the capacity and more extents remain
CapacityLimited ==
  /\ pages # <<>>
  /\ pages[1].fm_mapped_extents = FIEMAP_PAGE_SIZE
  /\ "LAST" \notin pages[1].fm_extents[FIEMAP_PAGE_SIZE].fe_flags

\* C8: when a response is capacity-limited, the query issued next returns
\* only extents not seen before, and the pages together hold every extent of
\* the file exactly once.
C8_PagesContinue ==
  (CapacityLimited /\ Len(pages) >= 2) =>
    /\ \A i \in 1..pages[1].fm_mapped_extents :
         \A j \in 1..pages[2].fm_mapped_extents :
            pages[1].fm_extents[i] # pages[2].fm_extents[j]
    /\ PageExtents(pages[1]) \o PageExtents(pages[2])
         = SubSeq(Extents(files[1]), 1,
                  pages[1].fm_mapped_extents + pages[2].fm_mapped_extents)

\* callers whose handle no other caller uses
Exclusive(c) == \A d \in Callers \ {c} : HandleOf(d) # HandleOf(c)

\* C10: callers on handles of their own do not interfere, however the calls
\* (and the write(2) calls of their writes) interleave, on one file or on
\* several: after a caller's lseek_to the cursor of its handle is the
\* offset it asked for until it moves it again, its write begins there and
\* every later write(2) of that write continues where its previous one
\* ended, and a quick_extents call returns a fresh record filled from the
\* file of the caller's own handle.  (Two callers on one handle can have a
\* write land at the other's offset: the state C10_Witness describes.)
C10_OwnHandleNoInterference ==
  /\ \A c \in Callers :
       (Exclusive(c) /\ pc[c] = "seeked") => cursor[HandleOf(c)] = asked[c]
  /\ \A c \in Callers :
       (Exclusive(c) /\ pc[c] = "writing") =>
          cursor[HandleOf(c)] = asked[c] + (WriteLen - left[c])
  /\ (last.op = "write" /\ Exclusive(last.c)) =>
       /\ last.at = last.asked + (WriteLen - last.len)
       /\ last.fin =>
            (last.ok <=> Fits(hkind[HandleOf(last.c)], last.asked))
  /\ last.op = "quick_extents" =>
       last.out = OkReq(Populated(files[FileOf(HandleOf(last.c))]))

\* caller 1's write landed at the offset caller 2 asked for on the handle
\* they share, while the cursors of callers 3 and 4, each on its own handle
\* of one file, stayed where each put its own
C10_Witness ==
  /\ last.op = "write"
  /\ last.c = 1
  /\ last.begin
  /\ last.at # last.asked
  /\ last.at = asked[2]
  /\ pc[2] = "seeked"
  /\ pc[3] = "seeked"
  /\ pc[4] = "seeked"
  /\ asked[3] # asked[4]
  /\ FileOf(HandleOf(3)) = FileOf(HandleOf(4))
  /\ cursor[HandleOf(3)] = asked[3]
  /\ cursor[HandleOf(4)] = asked[4]
====
